---------------------------- MODULE Spec2Model ----------------------------
(***************************************************************************)
(* Model of Scrapers/scrape_gas.py: the per-city multi-grade scrape with   *)
(* its browser session, the main city loop, the flatten / dedupe pipeline  *)
(* and the output sinks.                                                   *)
(*                                                                         *)
(* Encoding of Python values                                               *)
(*   str            a sequence of one-character strings, "" is << >>       *)
(*   None (text)    the sequence None == <<"None">> (no str has a          *)
(*                  four-character element, so it equals no str)           *)
(*   float price    an integer number of cents; None is NoPrice            *)
(*   dict of a city an ordered sequence of [city, result] (insertion order)*)
(*   exception      its message str(e), kept whole: a one-element sequence *)
(***************************************************************************)
EXTENDS Integers, Sequences, FiniteSets, TLC

VARIABLES
    cfg,          \* the toggles and CLI flags of the run
    pc,           \* position of the main script / of the current city scrape
    city,         \* index of the city the loop is at
    driver,       \* "none" | "open" | "quit": the session of the current call
    pending,      \* outcome travelling through the finally block / to the caller
    events,       \* what the current city scrape did to the page, in order
    data,         \* regular_data, midgrade_data, premium_data, diesel_data
    all_results,  \* ordered mapping city -> list of records | error marker
    rows,         \* the flat rows
    sinks,        \* what the output steps reported, in order
    hpc,          \* position of a function applied on its own
    arg,          \* its arguments
    ret           \* its locals / return value

mainVars == <<cfg, pc, city, driver, pending, events, data, all_results, rows, sinks>>
funVars == <<hpc, arg, ret>>
vars == <<mainVars, funVars>>

---------------------------------------------------------------------------
(* Bounds of the model *)

NumCities == 2
MaxObs == 3
MaxLinks == 3
MaxLimit == 2
MaxRows == 3

---------------------------------------------------------------------------
(* Python values *)

None == <<"None">>
NoPrice == -1

Grades == <<"regular", "midgrade", "premium", "diesel">>
GradeSet == {Grades[i] : i \in 1..Len(Grades)}

IsSpace(c) == c = " "

\* str.strip()
RECURSIVE LStrip(_)
LStrip(s) == IF s # <<>> /\ IsSpace(Head(s)) THEN LStrip(Tail(s)) ELSE s

RECURSIVE RStripSpace(_)
RStripSpace(s) ==
    IF s # <<>> /\ IsSpace(s[Len(s)]) THEN RStripSpace(SubSeq(s, 1, Len(s) - 1)) ELSE s

Strip(s) == RStripSpace(LStrip(s))

\* str.lower() on the letters of the model's alphabet
LowerChar(c) ==
    CASE c = "A" -> "a"
      [] c = "B" -> "b"
      [] c = "E" -> "e"
      [] c = "O" -> "o"
      [] c = "R" -> "r"
      [] c = "S" -> "s"
      [] OTHER -> c

Lower(s) == [i \in 1..Len(s) |-> LowerChar(s[i])]

\* (x or ""): None and "" both give ""
OrEmpty(x) == IF x = None THEN <<>> ELSE x

\* (x or None): "" and None both give None
OrNone(x) == IF x = <<>> THEN None ELSE x

\* u.rstrip("/")
RECURSIVE RStripSlash(_)
RStripSlash(u) ==
    IF u # <<>> /\ u[Len(u)] = "/" THEN RStripSlash(SubSeq(u, 1, Len(u) - 1)) ELSE u

\* s.split("/")[-1]: the text after the last "/"
RECURSIVE LastSegment(_)
LastSegment(s) ==
    IF s = <<>> \/ s[Len(s)] = "/" THEN <<>>
    ELSE Append(LastSegment(SubSeq(s, 1, Len(s) - 1)), s[Len(s)])

station_id_from_url(u) == LastSegment(RStripSlash(u))

---------------------------------------------------------------------------
(* combine_by_station *)

UpdatedKey(grade) == grade \o "_updated"

\* combined.setdefault(sid, {...}): the value of a key that is not there yet
NewCombined(r) ==
    [name |-> r.name, station_url |-> r.station_url, address |-> r.address,
     regular |-> NoPrice, regular_updated |-> None,
     midgrade |-> NoPrice, midgrade_updated |-> None,
     premium |-> NoPrice, premium_updated |-> None,
     diesel |-> NoPrice, diesel_updated |-> None]

\* the position of key sid in the insertion-ordered dict, 0 when absent
KeyIndex(combined, sid) ==
    IF \E i \in 1..Len(combined) : combined[i].sid = sid
    THEN CHOOSE i \in 1..Len(combined) : combined[i].sid = sid
    ELSE 0

\* a variant that replaces the station's name, URL and address on every observation
CombineStep_LastSeen(combined, grade, r, include_updates) ==
    LET sid == station_id_from_url(r.station_url)
        k == KeyIndex(combined, sid)
        c1 == IF k = 0 THEN Append(combined, [sid |-> sid, rec |-> NewCombined(r)])
              ELSE combined
        j == IF k = 0 THEN Len(c1) ELSE k
        upd == IF include_updates THEN r.updated ELSE <<>>
    IN [c1 EXCEPT ![j].rec =
            [[[@ EXCEPT ![grade] = r.price] EXCEPT ![UpdatedKey(grade)] = upd]
                EXCEPT !.name = r.name, !.station_url = r.station_url,
                       !.address = r.address]]

\* one pass of the inner loop body for observation r of the given grade
CombineStep(combined, grade, r, include_updates) ==
    LET sid == station_id_from_url(r.station_url)
        k == KeyIndex(combined, sid)
        c1 == IF k = 0 THEN Append(combined, [sid |-> sid, rec |-> NewCombined(r)])
              ELSE combined
        j == IF k = 0 THEN Len(c1) ELSE k
        upd == IF include_updates THEN r.updated ELSE <<>>
    IN [c1 EXCEPT ![j].rec =
            [[@ EXCEPT ![grade] = r.price] EXCEPT ![UpdatedKey(grade)] = upd]]

\* the observations in the order the two nested loops visit them
RECURSIVE TagRows(_, _)
TagRows(grade, rs) ==
    IF rs = <<>> THEN <<>>
    ELSE <<[grade |-> grade, r |-> Head(rs)]>> \o TagRows(grade, Tail(rs))

VisitOrder(regular, midgrade, premium, diesel) ==
    TagRows("regular", regular) \o TagRows("midgrade", midgrade)
        \o TagRows("premium", premium) \o TagRows("diesel", diesel)

RECURSIVE CombineAll(_, _, _)
CombineAll(combined, visits, include_updates) ==
    IF visits = <<>> THEN combined
    ELSE CombineAll(CombineStep(combined, Head(visits).grade, Head(visits).r,
                                include_updates),
                    Tail(visits), include_updates)

\* list(combined.values())
DictValues(combined) == [i \in 1..Len(combined) |-> combined[i].rec]

combine_by_station(regular, midgrade, premium, diesel, include_updates) ==
    DictValues(CombineAll(<<>>, VisitOrder(regular, midgrade, premium, diesel),
                          include_updates))

---------------------------------------------------------------------------
(* scrape_city_page_current_dom *)

\* A station link of the page as the scraper reads it: a.text, the href
\* attribute, whether find_station_card found a card, and what the card's
\* text yields (first price match, first address line, first "ago" line).

\* locals of the function at the top of the for loop
ScrapeStart == [results |-> <<>>, seen |-> {}, i |-> 1, brk |-> FALSE]

\* the loop body for link a
LinkStep(st, a, limit) ==
    LET name == Strip(a.text)
        href == a.href
        next == [st EXCEPT !.i = @ + 1]
    IN IF name = <<>> \/ href = None \/ href = <<>> THEN next
       ELSE IF href \in st.seen THEN next
       ELSE LET s1 == [next EXCEPT !.seen = @ \cup {href}]
            IN IF ~a.has_card THEN s1
               ELSE LET s2 == IF a.price # NoPrice
                              THEN [s1 EXCEPT !.results = Append(@,
                                       [name |-> name, station_url |-> href,
                                        price |-> a.price, address |-> a.address,
                                        updated |-> a.updated])]
                              ELSE s1
                    IN IF Len(s2.results) >= limit THEN [s2 EXCEPT !.brk = TRUE]
                       ELSE s2

ScrapeDone(st, links) == st.brk \/ st.i > Len(links)

RECURSIVE ScrapeLoop(_, _, _)
ScrapeLoop(st, links, limit) ==
    IF ScrapeDone(st, links) THEN st
    ELSE ScrapeLoop(LinkStep(st, links[st.i], limit), links, limit)

\* links: the station links in DOM order; none at all means the wait timed out
scrape_city_page_current_dom(links, limit) ==
    IF links = <<>> THEN <<>>
    ELSE ScrapeLoop(ScrapeStart, links, limit).results

---------------------------------------------------------------------------
(* flatten_results_for_storage *)

ErrorMarker(msg) == [kind |-> "error", error |-> msg, stations |-> <<>>]
StationList(stations) == [kind |-> "list", error |-> None, stations |-> stations]

\* isinstance(stations, dict) and "error" in stations
IsErrorMarker(result) == result.kind = "error"

ERROR == <<"E", "R", "R", "O", "R">>

\* a variant that puts the message where write_csv puts it, in the address
ErrorRow_MessageInAddress(run_timestamp, run_label, cityName, result) ==
    [run_timestamp |-> run_timestamp, run_label |-> run_label, city |-> cityName,
     station_id |-> None, station_name |-> ERROR, station_url |-> None,
     address |-> result.error,
     regular |-> NoPrice, regular_updated |-> None,
     midgrade |-> NoPrice, midgrade_updated |-> None,
     premium |-> NoPrice, premium_updated |-> None,
     diesel |-> NoPrice, diesel_updated |-> None,
     scrape_error |-> None]

ErrorRow(run_timestamp, run_label, cityName, result) ==
    [run_timestamp |-> run_timestamp, run_label |-> run_label, city |-> cityName,
     station_id |-> None, station_name |-> ERROR, station_url |-> None,
     address |-> None,
     regular |-> NoPrice, regular_updated |-> None,
     midgrade |-> NoPrice, midgrade_updated |-> None,
     premium |-> NoPrice, premium_updated |-> None,
     diesel |-> NoPrice, diesel_updated |-> None,
     scrape_error |-> result.error]

StationRow(run_timestamp, run_label, cityName, s) ==
    LET station_url == s.station_url
    IN [run_timestamp |-> run_timestamp, run_label |-> run_label, city |-> cityName,
        station_id |-> IF station_url # <<>> /\ station_url # None
                       THEN station_id_from_url(station_url) ELSE None,
        station_name |-> s.name,
        station_url |-> OrNone(station_url),
        address |-> OrNone(s.address),
        regular |-> s.regular, regular_updated |-> OrNone(s.regular_updated),
        midgrade |-> s.midgrade, midgrade_updated |-> OrNone(s.midgrade_updated),
        premium |-> s.premium, premium_updated |-> OrNone(s.premium_updated),
        diesel |-> s.diesel, diesel_updated |-> OrNone(s.diesel_updated),
        scrape_error |-> None]

CityRows(run_timestamp, run_label, entry) ==
    IF IsErrorMarker(entry.result)
    THEN <<ErrorRow(run_timestamp, run_label, entry.city, entry.result)>>
    ELSE [i \in 1..Len(entry.result.stations) |->
             StationRow(run_timestamp, run_label, entry.city, entry.result.stations[i])]

RECURSIVE flatten_results_for_storage(_, _, _)
flatten_results_for_storage(results, run_timestamp, run_label) ==
    IF results = <<>> THEN <<>>
    ELSE CityRows(run_timestamp, run_label, Head(results))
         \o flatten_results_for_storage(Tail(results), run_timestamp, run_label)

---------------------------------------------------------------------------
(* dedupe_rows_by_station_and_address *)

DedupeKey(station_name, address) == <<Lower(station_name), Lower(address)>>

\* a variant that compares the pairs as written, without lower()
DedupeStep_CaseSensitive(st, row) ==
    LET station_name == Strip(OrEmpty(row.station_name))
        address == Strip(OrEmpty(row.address))
        dedupe_key == <<station_name, address>>
        stripped == [row EXCEPT !.station_name = station_name, !.address = address]
        i == Len(st.rows) + 1
    IN IF station_name = <<>> \/ address = <<>>
       THEN [st EXCEPT !.deduped = Append(@, row), !.kept = Append(@, i),
                       !.rows = Append(@, row)]
       ELSE IF dedupe_key \in st.seen_station_address
       THEN [st EXCEPT !.rows = Append(@, row)]
       ELSE [deduped |-> Append(st.deduped, stripped),
             kept |-> Append(st.kept, i),
             rows |-> Append(st.rows, stripped),
             seen_station_address |-> st.seen_station_address \cup {dedupe_key}]

\* a variant that builds the key from the untrimmed name and address
DedupeStep_KeyBeforeStrip(st, row) ==
    LET station_name == Strip(OrEmpty(row.station_name))
        address == Strip(OrEmpty(row.address))
        dedupe_key == DedupeKey(OrEmpty(row.station_name), OrEmpty(row.address))
        stripped == [row EXCEPT !.station_name = station_name, !.address = address]
        i == Len(st.rows) + 1
    IN IF station_name = <<>> \/ address = <<>>
       THEN [st EXCEPT !.deduped = Append(@, row), !.kept = Append(@, i),
                       !.rows = Append(@, row)]
       ELSE IF dedupe_key \in st.seen_station_address
       THEN [st EXCEPT !.rows = Append(@, row)]
       ELSE [deduped |-> Append(st.deduped, stripped),
             kept |-> Append(st.kept, i),
             rows |-> Append(st.rows, stripped),
             seen_station_address |-> st.seen_station_address \cup {dedupe_key}]

\* the loop body for one row. deduped holds the rows appended and kept their
\* positions in the argument; rows is the argument list as the loop leaves it:
\* the two assignments write to the caller's row, the one that deduped holds
DedupeStep(st, row) ==
    LET station_name == Strip(OrEmpty(row.station_name))
        address == Strip(OrEmpty(row.address))
        dedupe_key == DedupeKey(station_name, address)
        stripped == [row EXCEPT !.station_name = station_name, !.address = address]
        i == Len(st.rows) + 1
    IN IF station_name = <<>> \/ address = <<>>
       THEN [st EXCEPT !.deduped = Append(@, row), !.kept = Append(@, i),
                       !.rows = Append(@, row)]
       ELSE IF dedupe_key \in st.seen_station_address
       THEN [st EXCEPT !.rows = Append(@, row)]
       ELSE [deduped |-> Append(st.deduped, stripped),
             kept |-> Append(st.kept, i),
             rows |-> Append(st.rows, stripped),
             seen_station_address |-> st.seen_station_address \cup {dedupe_key}]

RECURSIVE DedupeLoop(_, _)
DedupeLoop(st, rs) ==
    IF rs = <<>> THEN st ELSE DedupeLoop(DedupeStep(st, Head(rs)), Tail(rs))

\* a call on the list rs: what it returns and what it leaves in rs
DedupeCall(rs) ==
    DedupeLoop([deduped |-> <<>>, kept |-> <<>>, rows |-> <<>>,
                seen_station_address |-> {}], rs)

dedupe_rows_by_station_and_address(rs) == DedupeCall(rs).deduped
---------------------------------------------------------------------------
(* The run: configuration *)

CityNames == <<"La Mirada", "La Habra", "Whittier", "Santa Fe Springs", "Buena Park",
               "Norwalk", "Cerritos", "Fullerton", "Brea", "Anaheim">>

CityIds == 1..NumCities

DefaultLimit == 30
batch_size == 500

\* str(e) of the exceptions the browser and the upload client raise
Msg(text) == <<text>>

ENABLE_UPDATE_TIMES == FALSE

\* ENABLE_REGULAR .. ENABLE_DIESEL, ENABLE_CITY_* and --limit. The other flags
\* are drawn where the script first reads them.
Configs ==
    [enable : [GradeSet -> BOOLEAN],
     city_toggles : [CityIds -> BOOLEAN],
     limit : {DefaultLimit}]

NoOutcome == [kind |-> "none", value |-> <<>>, msg |-> None]
Returns(value) == [kind |-> "return", value |-> value, msg |-> None]
Raises(msg) == [kind |-> "raise", value |-> <<>>, msg |-> msg]

NoData == [g \in GradeSet |-> <<>>]

Event(op, grade) == [op |-> op, grade |-> grade]

---------------------------------------------------------------------------
(* scrape_all_fueltypes *)

\* a variant with the diesel value pasted into the premium block
FuelTypeValue_Pasted(grade) ==
    CASE grade = "midgrade" -> "2"
      [] grade = "premium" -> "4"
      [] grade = "diesel" -> "4"
      [] OTHER -> ""

\* the value select_fueltype_and_wait is called with; regular is the page's default
FuelTypeValue(grade) ==
    CASE grade = "midgrade" -> "2"
      [] grade = "premium" -> "3"
      [] grade = "diesel" -> "4"
      [] OTHER -> ""

\* the regular block has no select_fueltype_and_wait call, the others start with one
NeedsSwitch(grade) == grade # "regular"

\* where control goes from the i-th "if ENABLE_..." on
RECURSIVE GradeEntry(_)
GradeEntry(i) ==
    IF i > Len(Grades) THEN "combine"
    ELSE IF ~cfg.enable[Grades[i]] THEN GradeEntry(i + 1)
    ELSE IF NeedsSwitch(Grades[i]) THEN "switch_" \o Grades[i]
    ELSE "scrape_" \o Grades[i]

GradeIndex(grade) == CHOOSE i \in 1..Len(Grades) : Grades[i] = grade

\* what the page shows for a grade: nothing in time, or one priced station
GradePrice(grade) ==
    CASE grade = "regular" -> 449
      [] grade = "midgrade" -> 469
      [] grade = "premium" -> 489
      [] OTHER -> 519

StationLink(grade) ==
    [text |-> <<"S", " ">>, href |-> <<"/", "s", "/", "7">>, has_card |-> TRUE,
     price |-> GradePrice(grade), address |-> <<"1", " ", "S", "t">>,
     updated |-> <<"a", "g", "o">>]

PagesOf(grade) == {<<>>, <<StationLink(grade)>>}

\* driver = make_driver(headless=headless)
MakeDriver ==
    /\ pc = "make_driver"
    /\ \/ /\ driver' = "open"
          /\ pc' = "setup"
          /\ UNCHANGED pending
       \/ /\ pending' = Raises(Msg("session not created"))
          /\ pc' = "raised"
          /\ UNCHANGED driver
    /\ UNCHANGED <<cfg, city, events, data, all_results, rows, sinks, funVars>>

\* the two execute_cdp_cmd calls, before the try statement
BlockNetwork ==
    /\ pc = "setup"
    /\ \/ /\ pc' = "get"
          /\ UNCHANGED pending
       \/ /\ pending' = Raises(Msg("cdp command failed"))
          /\ pc' = "raised"
    /\ UNCHANGED <<cfg, city, driver, events, data, all_results, rows, sinks, funVars>>

\* driver.get(url)
Navigate ==
    /\ pc = "get"
    /\ \/ /\ pc' = "has_stations"
          /\ UNCHANGED pending
       \/ /\ pending' = Raises(Msg("navigation failed"))
          /\ pc' = "finally"
    /\ UNCHANGED <<cfg, city, driver, events, data, all_results, rows, sinks, funVars>>

\* a variant whose wait for a station link is not wrapped in try / except
CityHasStations_Raises ==
    /\ pc = "has_stations"
    /\ \/ /\ pc' = GradeEntry(1)
          /\ UNCHANGED <<pending, events>>
       \/ /\ events' = Append(events, Event("no_stations", ""))
          /\ pending' = Raises(Msg("timeout"))
          /\ pc' = "finally"
    /\ UNCHANGED <<cfg, city, driver, data, all_results, rows, sinks, funVars>>

\* if not city_has_stations(driver): return []
CityHasStations ==
    /\ pc = "has_stations"
    /\ \/ /\ pc' = GradeEntry(1)
          /\ UNCHANGED <<pending, events>>
       \/ /\ events' = Append(events, Event("no_stations", ""))
          /\ pending' = Returns(<<>>)
          /\ pc' = "finally"
    /\ UNCHANGED <<cfg, city, driver, data, all_results, rows, sinks, funVars>>

\* select_fueltype_and_wait(driver, value): returns, or a wait times out
SelectFueltype ==
    \E g \in GradeSet :
        /\ pc = "switch_" \o g
        /\ \/ /\ events' = Append(events, Event("switch", FuelTypeValue(g)))
              /\ pc' = "scrape_" \o g
              /\ UNCHANGED pending
           \/ /\ events' = Append(events, Event("switch_failed", FuelTypeValue(g)))
              /\ pending' = Raises(Msg("timeout"))
              /\ pc' = "finally"
        /\ UNCHANGED <<cfg, city, driver, data, all_results, rows, sinks, funVars>>

\* <grade>_data = scrape_city_page_current_dom(driver, limit=limit)
ScrapeGrade ==
    \E g \in GradeSet :
        /\ pc = "scrape_" \o g
        /\ \/ \E links \in PagesOf(g) :
                /\ data' = [data EXCEPT ![g] = scrape_city_page_current_dom(links, cfg.limit)]
                /\ events' = Append(events, Event("scrape", g))
                /\ pc' = GradeEntry(GradeIndex(g) + 1)
                /\ UNCHANGED pending
           \/ /\ pending' = Raises(Msg("stale element"))
              /\ pc' = "finally"
              /\ UNCHANGED <<data, events>>
        /\ UNCHANGED <<cfg, city, driver, all_results, rows, sinks, funVars>>

\* return combine_by_station(...)
Combine ==
    /\ pc = "combine"
    /\ pending' = Returns(combine_by_station(data["regular"], data["midgrade"],
                              data["premium"], data["diesel"], ENABLE_UPDATE_TIMES))
    /\ pc' = "finally"
    /\ UNCHANGED <<cfg, city, driver, events, data, all_results, rows, sinks, funVars>>

\* finally: driver.quit(), then the return value or the exception goes on
Finally ==
    /\ pc = "finally"
    /\ driver' = "quit"
    /\ pc' = IF pending.kind = "raise" THEN "raised" ELSE "returned"
    /\ UNCHANGED <<cfg, city, pending, events, data, all_results, rows, sinks, funVars>>

---------------------------------------------------------------------------
(* __main__: the city loop *)

\* a variant that keeps, on an exception, the grades scraped before it
CityResult_KeepsPartial(outcome) ==
    IF outcome.kind = "raise"
    THEN StationList(combine_by_station(data["regular"], data["midgrade"],
                         data["premium"], data["diesel"], ENABLE_UPDATE_TIMES))
    ELSE StationList(IF outcome.value # <<>> THEN outcome.value ELSE <<>>)

\* the body of the try / except of the loop: what is stored for the city
CityResult(outcome) ==
    IF outcome.kind = "raise" THEN ErrorMarker(outcome.msg)
    ELSE StationList(IF outcome.value # <<>> THEN outcome.value ELSE <<>>)

\* for city_name, url in cities.items(): the next enabled city, or the end
NextCity ==
    /\ pc = "loop"
    /\ IF city > NumCities
       THEN /\ pc' = "json"
            /\ UNCHANGED <<city, driver, pending, events, data>>
       ELSE IF ~cfg.city_toggles[city]
       THEN /\ city' = city + 1
            /\ UNCHANGED <<pc, driver, pending, events, data>>
       ELSE /\ pc' = "make_driver"
            /\ UNCHANGED <<city, driver, pending, events, data>>
    /\ UNCHANGED <<cfg, all_results, rows, sinks, funVars>>

\* all_results[city_name] = ... in the try block or in the except block; the
\* locals of the finished call are gone
StoreCity ==
    /\ pc \in {"returned", "raised"}
    /\ all_results' = Append(all_results,
                             [city |-> CityNames[city], result |-> CityResult(pending)])
    /\ city' = city + 1
    /\ pc' = "loop"
    /\ driver' = "none"
    /\ pending' = NoOutcome
    /\ events' = <<>>
    /\ data' = NoData
    /\ UNCHANGED <<cfg, rows, sinks, funVars>>
---------------------------------------------------------------------------
(* write_csv *)

CsvErrorRow(ts_label, entry) ==
    [ts |-> ts_label, city |-> entry.city, station |-> ERROR,
     address |-> entry.result.error,
     regular |-> NoPrice, regular_updated |-> <<>>,
     midgrade |-> NoPrice, midgrade_updated |-> <<>>,
     premium |-> NoPrice, premium_updated |-> <<>>,
     diesel |-> NoPrice, diesel_updated |-> <<>>]

\* a written line; NoPrice stands for the empty cell csv writes for "" and None
CsvStationRow(ts_label, cityName, station_name, address, s) ==
    [ts |-> ts_label, city |-> cityName, station |-> station_name,
     address |-> address,
     regular |-> s.regular, regular_updated |-> OrEmpty(s.regular_updated),
     midgrade |-> s.midgrade, midgrade_updated |-> OrEmpty(s.midgrade_updated),
     premium |-> s.premium, premium_updated |-> OrEmpty(s.premium_updated),
     diesel |-> s.diesel, diesel_updated |-> OrEmpty(s.diesel_updated)]

\* the inner loop body for station s of a city
CsvStep(st, ts_label, cityName, s) ==
    LET station_name == Strip(OrEmpty(s.name))
        address == Strip(OrEmpty(s.address))
        dedupe_key == DedupeKey(station_name, address)
        line == CsvStationRow(ts_label, cityName, station_name, address, s)
    IN IF station_name # <<>> /\ address # <<>>
       THEN IF dedupe_key \in st.seen_station_address THEN st
            ELSE [written |-> Append(st.written, line),
                  seen_station_address |-> st.seen_station_address \cup {dedupe_key}]
       ELSE [st EXCEPT !.written = Append(@, line)]

RECURSIVE CsvStations(_, _, _, _)
CsvStations(st, ts_label, cityName, stations) ==
    IF stations = <<>> THEN st
    ELSE CsvStations(CsvStep(st, ts_label, cityName, Head(stations)),
                     ts_label, cityName, Tail(stations))

\* a variant that starts each city with an empty seen_station_address
RECURSIVE CsvCities_PerCity(_, _, _)
CsvCities_PerCity(st, ts_label, results) ==
    IF results = <<>> THEN st
    ELSE LET entry == Head(results)
             st0 == [st EXCEPT !.seen_station_address = {}]
             st1 == IF IsErrorMarker(entry.result)
                    THEN [st0 EXCEPT !.written = Append(@, CsvErrorRow(ts_label, entry))]
                    ELSE CsvStations(st0, ts_label, entry.city, entry.result.stations)
         IN CsvCities_PerCity(st1, ts_label, Tail(results))

RECURSIVE CsvCities(_, _, _)
CsvCities(st, ts_label, results) ==
    IF results = <<>> THEN st
    ELSE LET entry == Head(results)
             st1 == IF IsErrorMarker(entry.result)
                    THEN [st EXCEPT !.written = Append(@, CsvErrorRow(ts_label, entry))]
                    ELSE CsvStations(st, ts_label, entry.city, entry.result.stations)
         IN CsvCities(st1, ts_label, Tail(results))

\* the lines written after the header
write_csv(results, ts_label) ==
    CsvCities([written |-> <<>>, seen_station_address |-> {}], ts_label, results).written

---------------------------------------------------------------------------
(* __main__: the output steps *)

RunTimestamp == "run_timestamp"
RunLabel == "ts"

\* log: the status lines printed; write_json_output, write_csv_output: the two
\* locals of that name; i: the batch offset; csv: the lines of the CSV file
NoSinks == [log |-> <<>>, write_json_output |-> FALSE, write_csv_output |-> FALSE,
            i |-> 0, csv |-> <<>>]

Report(line) == [sinks EXCEPT !.log = Append(@, line)]

\* a variant that handles the configuration errors only: except RuntimeError
UploadHandlerCatches_ConfigOnly(cls) == cls = "RuntimeError"

\* except Exception as e: every exception the upload raises is an Exception
UploadHandlerCatches(cls) == cls \in {"RuntimeError", "Exception"}

\* the exceptions of upload_to_supabase before the first batch: the import
\* fails, a credential is missing, create_client raises
UploadSetupErrors ==
    {[cls |-> "RuntimeError", msg |-> Msg("Missing dependency")],
     [cls |-> "RuntimeError", msg |-> Msg("SUPABASE_URL and SUPABASE_KEY must be set")],
     [cls |-> "Exception", msg |-> Msg("invalid url")]}

UpsertError == [cls |-> "Exception", msg |-> Msg("upsert failed")]

\* an exception leaves the try block of the upload
UploadRaises(exc) ==
    IF UploadHandlerCatches(exc.cls)
    THEN /\ sinks' = Report("upload_failed")
         /\ pc' = "csv"
    ELSE /\ pc' = "aborted"
         /\ UNCHANGED sinks

\* write_json_output = ENABLE_JSON_OUTPUT and not args.no_json, the same for
\* csv; if write_json_output: json.dump(all_results, f)
JsonOutput ==
    /\ pc = "json"
    /\ \E wj \in BOOLEAN, wc \in BOOLEAN :
          sinks' = [Report(IF wj THEN "json_saved" ELSE "json_skipped")
                       EXCEPT !.write_json_output = wj, !.write_csv_output = wc]
    /\ pc' = "flatten"
    /\ UNCHANGED <<cfg, city, driver, pending, events, data, all_results, rows, funVars>>

\* rows = flatten_results_for_storage(all_results, ...)
Flatten ==
    /\ pc = "flatten"
    /\ rows' = flatten_results_for_storage(all_results, RunTimestamp, RunLabel)
    /\ pc' = "dedupe"
    /\ UNCHANGED <<cfg, city, driver, pending, events, data, all_results, sinks, funVars>>

\* rows = dedupe_rows_by_station_and_address(rows)
Dedupe ==
    /\ pc = "dedupe"
    /\ rows' = dedupe_rows_by_station_and_address(rows)
    /\ pc' = "upload"
    /\ UNCHANGED <<cfg, city, driver, pending, events, data, all_results, sinks, funVars>>

\* if args.no_supabase: skip; else enter upload_to_supabase up to the batch loop
Upload ==
    /\ pc = "upload"
    /\ \E no_supabase \in BOOLEAN :
          IF no_supabase
          THEN /\ sinks' = Report("upload_skipped")
               /\ pc' = "csv"
          ELSE \/ /\ sinks' = [sinks EXCEPT !.i = 0]
                  /\ pc' = "upsert"
               \/ \E exc \in UploadSetupErrors : UploadRaises(exc)
    /\ UNCHANGED <<cfg, city, driver, pending, events, data, all_results, rows, funVars>>

\* for i in range(0, len(rows), batch_size): upsert rows[i:i + batch_size]
Upsert ==
    /\ pc = "upsert"
    /\ IF sinks.i < Len(rows)
       THEN \/ /\ sinks' = [sinks EXCEPT !.i = @ + batch_size]
               /\ UNCHANGED pc
            \/ UploadRaises(UpsertError)
       ELSE /\ sinks' = Report("uploaded")
            /\ pc' = "csv"
    /\ UNCHANGED <<cfg, city, driver, pending, events, data, all_results, rows, funVars>>

\* if write_csv_output: write_csv(all_results, ...)
CsvOutput ==
    /\ pc = "csv"
    /\ sinks' = IF sinks.write_csv_output
                THEN [Report("csv_saved") EXCEPT !.csv = write_csv(all_results, RunLabel)]
                ELSE Report("csv_skipped")
    /\ pc' = "done"
    /\ UNCHANGED <<cfg, city, driver, pending, events, data, all_results, rows, funVars>>

---------------------------------------------------------------------------
(* The run as a whole *)

Init ==
    /\ cfg \in Configs
    /\ pc = "loop"
    /\ city = 1
    /\ driver = "none"
    /\ pending = NoOutcome
    /\ events = <<>>
    /\ data = NoData
    /\ all_results = <<>>
    /\ rows = <<>>
    /\ sinks = NoSinks
    /\ hpc = "off"
    /\ arg = <<>>
    /\ ret = <<>>

Next ==
    \/ NextCity
    \/ MakeDriver
    \/ BlockNetwork
    \/ Navigate
    \/ CityHasStations
    \/ SelectFueltype
    \/ ScrapeGrade
    \/ Combine
    \/ Finally
    \/ StoreCity
    \/ JsonOutput
    \/ Flatten
    \/ Dedupe
    \/ Upload
    \/ Upsert
    \/ CsvOutput

Spec == Init /\ [][Next]_vars
---------------------------------------------------------------------------
(* The functions applied on their own, on inputs drawn from bounded sets *)

\* the main script is not running: the toggles as shipped, nothing scraped
MainOff ==
    /\ cfg = [enable |-> [g \in GradeSet |-> TRUE],
              city_toggles |-> [c \in CityIds |-> TRUE],
              limit |-> DefaultLimit]
    /\ pc = "off"
    /\ city = 1
    /\ driver = "none"
    /\ pending = NoOutcome
    /\ events = <<>>
    /\ data = NoData
    /\ all_results = <<>>
    /\ rows = <<>>
    /\ sinks = NoSinks

SeqsUpTo(S, n) == UNION {[1..k -> S] : k \in 0..n}

Url7 == <<"/", "s", "/", "7">>
Url7Slash == <<"/", "s", "/", "7", "/">>
Url8 == <<"/", "s", "/", "8">>
Addr1 == <<"1", " ", "S", "t">>
Ago == <<"a", "g", "o">>

(* scrape_city_page_current_dom(driver, limit) *)

Link(text, href, has_card, price) ==
    [text |-> text, href |-> href, has_card |-> has_card, price |-> price,
     address |-> Addr1, updated |-> Ago]

LinkSet ==
    {Link(<<"S", " ">>, Url7, TRUE, 449),
     Link(<<"B">>, Url8, TRUE, 469),
     Link(<<" ">>, Url8, TRUE, 449),
     Link(<<"S">>, None, TRUE, 449),
     Link(<<"S">>, Url7Slash, FALSE, 449),
     Link(<<"B">>, Url7Slash, TRUE, NoPrice)}

\* what type=int accepts: negative numbers and zero too
Limits == (-1)..MaxLimit

InitPage ==
    /\ MainOff
    /\ hpc = "wait"
    /\ arg \in [links : SeqsUpTo(LinkSet, MaxLinks), limit : Limits]
    /\ ret = ScrapeStart

\* the WebDriverWait for a first station link; a timeout returns []
PageWait ==
    /\ hpc = "wait"
    /\ hpc' = IF arg.links = <<>> THEN "returned" ELSE "loop"
    /\ UNCHANGED <<mainVars, arg, ret>>

\* one pass of "for a in links"
PageLink ==
    /\ hpc = "loop"
    /\ ~ScrapeDone(ret, arg.links)
    /\ ret' = LinkStep(ret, arg.links[ret.i], arg.limit)
    /\ UNCHANGED <<mainVars, hpc, arg>>

\* the loop ends (break, or no link left): return results
PageReturn ==
    /\ hpc = "loop"
    /\ ScrapeDone(ret, arg.links)
    /\ hpc' = "returned"
    /\ UNCHANGED <<mainVars, arg, ret>>

NextPage == PageWait \/ PageLink \/ PageReturn

SpecPage == InitPage /\ [][NextPage]_vars

(* combine_by_station(regular, midgrade, premium, diesel, include_updates) *)

Obs(name, url, price, address) ==
    [name |-> name, station_url |-> url, price |-> price, address |-> address,
     updated |-> Ago]

ObsSet ==
    {Obs(<<"S">>, Url7, 449, Addr1),
     Obs(<<"B">>, Url7Slash, 469, <<>>),
     Obs(<<"B">>, Url8, NoPrice, Addr1)}

\* the observations of one grade among tagged ones, in their order
OfGrade(tagged, grade) ==
    LET sel == SelectSeq(tagged, LAMBDA v : v.grade = grade)
    IN [i \in 1..Len(sel) |-> sel[i].r]

\* at most MaxObs observations in all, spread over the four lists
CombineArgs ==
    {[regular |-> OfGrade(t, "regular"), midgrade |-> OfGrade(t, "midgrade"),
      premium |-> OfGrade(t, "premium"), diesel |-> OfGrade(t, "diesel"),
      include_updates |-> u] :
        t \in SeqsUpTo([grade : GradeSet, r : ObsSet], MaxObs), u \in BOOLEAN}

Visits == VisitOrder(arg.regular, arg.midgrade, arg.premium, arg.diesel)

InitCombine ==
    /\ MainOff
    /\ hpc = "loop"
    /\ arg \in CombineArgs
    /\ ret = [combined |-> <<>>, k |-> 0, result |-> <<>>]

\* one pass of "for r in rows" for the next observation in visiting order
CombineNext ==
    /\ hpc = "loop"
    /\ ret.k < Len(Visits)
    /\ ret' = [ret EXCEPT
                 !.combined = CombineStep(@, Visits[ret.k + 1].grade, Visits[ret.k + 1].r,
                                          arg.include_updates),
                 !.k = @ + 1]
    /\ UNCHANGED <<mainVars, hpc, arg>>

\* return list(combined.values())
CombineReturn ==
    /\ hpc = "loop"
    /\ ret.k = Len(Visits)
    /\ ret' = [ret EXCEPT !.result = DictValues(ret.combined)]
    /\ hpc' = "returned"
    /\ UNCHANGED <<mainVars, arg>>

NextCombine == CombineNext \/ CombineReturn

SpecCombine == InitCombine /\ [][NextCombine]_vars
(* dedupe_rows_by_station_and_address(rows) *)

StationSeven ==
    [name |-> <<"S">>, station_url |-> Url7, address |-> Addr1,
     regular |-> 449, regular_updated |-> <<>>,
     midgrade |-> NoPrice, midgrade_updated |-> None,
     premium |-> NoPrice, premium_updated |-> None,
     diesel |-> 519, diesel_updated |-> Ago]

\* a station of "Brea" with no URL and no address
StationBare == [StationSeven EXCEPT !.name = <<"B", " ">>, !.station_url = <<>>,
                                    !.address = <<>>, !.diesel = NoPrice]

Timeout == Msg("timeout")

DataRow(station_name, address) ==
    [StationRow(RunTimestamp, RunLabel, CityNames[1], StationSeven)
        EXCEPT !.station_name = station_name, !.address = address]

RowSet ==
    {DataRow(n, a) : n \in {None, <<" ">>, <<"S">>, <<"s", " ">>},
                     a \in {None, <<"A">>, <<" ", "a">>}}
      \cup {ErrorRow(RunTimestamp, RunLabel, CityNames[2], ErrorMarker(Timeout))}

InitDedupe ==
    /\ MainOff
    /\ hpc = "call"
    /\ arg \in SeqsUpTo(RowSet, MaxRows)
    /\ ret = [input |-> arg, once |-> <<>>, kept |-> <<>>, twice |-> <<>>]

\* deduped = dedupe_rows_by_station_and_address(rows): arg is the caller's list
\* rows, whose retained rows the call trims in place; ret.input keeps the rows
\* as they were passed and ret.kept the positions of the rows of deduped
DedupeOnce ==
    /\ hpc = "call"
    /\ LET call == DedupeCall(arg)
       IN /\ ret' = [ret EXCEPT !.once = call.deduped, !.kept = call.kept]
          /\ arg' = call.rows
    /\ hpc' = "once"
    /\ UNCHANGED mainVars

\* dedupe_rows_by_station_and_address(deduped): the function on its own output;
\* the rows of deduped are the caller's rows at the positions ret.kept
DedupeTwice ==
    /\ hpc = "once"
    /\ LET call == DedupeCall(ret.once)
       IN /\ ret' = [ret EXCEPT !.twice = call.deduped, !.once = call.rows]
          /\ arg' = [i \in DOMAIN arg |->
                       IF \E n \in DOMAIN ret.kept : ret.kept[n] = i
                       THEN call.rows[CHOOSE n \in DOMAIN ret.kept : ret.kept[n] = i]
                       ELSE arg[i]]
    /\ hpc' = "twice"
    /\ UNCHANGED mainVars

NextDedupe == DedupeOnce \/ DedupeTwice

SpecDedupe == InitDedupe /\ [][NextDedupe]_vars

(* flatten_results_for_storage(all_results, run_timestamp, run_label) *)

ResultSet ==
    {ErrorMarker(Timeout), ErrorMarker(<<>>)}
      \cup {StationList(l) : l \in SeqsUpTo({StationSeven, StationBare}, 2)}

\* the mappings of the first n cities to a result each
ResultMaps ==
    UNION {{[i \in 1..n |-> [city |-> CityNames[i], result |-> f[i]]] :
                f \in [1..n -> ResultSet]} : n \in 0..NumCities}

InitFlatten ==
    /\ MainOff
    /\ hpc = "call"
    /\ arg \in ResultMaps
    /\ ret = <<>>

\* rows = flatten_results_for_storage(all_results, run_timestamp, run_label)
FlattenCall ==
    /\ hpc = "call"
    /\ ret' = flatten_results_for_storage(arg, RunTimestamp, RunLabel)
    /\ hpc' = "returned"
    /\ UNCHANGED <<mainVars, arg>>

NextFlatten == FlattenCall

SpecFlatten == InitFlatten /\ [][NextFlatten]_vars

(* write_csv(data, ts_label, csv_file) beside flatten and dedupe *)

Station(name, address, regular) ==
    [StationSeven EXCEPT !.name = name, !.address = address, !.regular = regular]

\* stations whose names and addresses differ in case and spacing only, one
\* with a blank name, one with no address
CsvStationSet ==
    {Station(<<"S">>, <<"A">>, 449),
     Station(<<"s", " ">>, <<" ", "a">>, 469),
     Station(<<"S">>, <<" ", "a">>, 449),
     Station(<<"s", " ">>, <<"A">>, 469),
     Station(<<" ">>, <<"A">>, 449),
     Station(<<"S">>, <<>>, 469)}

CsvResultSet ==
    {ErrorMarker(Timeout)} \cup {StationList(l) : l \in SeqsUpTo(CsvStationSet, 2)}

\* the mapping of the first cities to the results f gives them
CsvResultMap(f) == [i \in DOMAIN f |-> [city |-> CityNames[i], result |-> f[i]]]

InitCsv ==
    /\ MainOff
    /\ hpc = "call"
    /\ \E n \in 0..NumCities : \E f \in [1..n -> CsvResultSet] : arg = CsvResultMap(f)
    /\ ret = [rows |-> <<>>, csv |-> <<>>]

\* rows = flatten_results_for_storage(all_results, ...)
CsvFlatten ==
    /\ hpc = "call"
    /\ ret' = [ret EXCEPT !.rows = flatten_results_for_storage(arg, RunTimestamp, RunLabel)]
    /\ hpc' = "flattened"
    /\ UNCHANGED <<mainVars, arg>>

\* rows = dedupe_rows_by_station_and_address(rows)
CsvDedupe ==
    /\ hpc = "flattened"
    /\ ret' = [ret EXCEPT !.rows = dedupe_rows_by_station_and_address(@)]
    /\ hpc' = "deduped"
    /\ UNCHANGED <<mainVars, arg>>

\* write_csv(all_results, ts_label=ts, csv_file=csv_file)
CsvWrite ==
    /\ hpc = "deduped"
    /\ ret' = [ret EXCEPT !.csv = write_csv(arg, RunLabel)]
    /\ hpc' = "written"
    /\ UNCHANGED <<mainVars, arg>>

NextCsv == CsvFlatten \/ CsvDedupe \/ CsvWrite

SpecCsv == InitCsv /\ [][NextCsv]_vars

---------------------------------------------------------------------------
(* Properties of scrape_city_page_current_dom *)

\* C10: for every limit the --limit flag accepts, the page scraper returns at
\* most limit observations. Stated here for the limits that any result can
\* meet, limit >= 0.
C10_AtMostLimit ==
    (hpc = "returned" /\ arg.limit >= 0) => Len(ret.results) <= arg.limit

---------------------------------------------------------------------------
(* Properties of combine_by_station *)

\* the observations in the order the claim names: regular, midgrade, premium,
\* diesel, and list order within a grade
C5_Tagged(grade, rs) == [i \in 1..Len(rs) |-> [grade |-> grade, r |-> rs[i]]]

C5_Order ==
    C5_Tagged("regular", arg.regular) \o C5_Tagged("midgrade", arg.midgrade)
        \o C5_Tagged("premium", arg.premium) \o C5_Tagged("diesel", arg.diesel)

C5_Sid(i) == station_id_from_url(C5_Order[i].r.station_url)

\* the first observation, among the first ret.k, with the station id of the i-th
C5_First(i) == CHOOSE f \in 1..i : C5_Sid(f) = C5_Sid(i) /\ \A j \in 1..(f - 1) : C5_Sid(j) # C5_Sid(i)

\* the observations of a station id and a grade among the first ret.k
C5_Same(i, grade) ==
    {j \in 1..ret.k : C5_Sid(j) = C5_Sid(i) /\ C5_Order[j].grade = grade}

C5_Last(S) == CHOOSE j \in S : \A m \in S : m <= j

\* C5: for every station id the combined record has the name, station_url and
\* address of the first observation with that id (grade order, then list
\* order); later observations with the id leave them unchanged, and each
\* observation sets its grade's price field to its own price, so the field holds
\* the price of the last observation of that id and grade so far.
C5_FirstSeenKept ==
    /\ ret.k <= Len(C5_Order)
    /\ \A i \in 1..ret.k :
         /\ Cardinality({e \in 1..Len(ret.combined) : ret.combined[e].sid = C5_Sid(i)}) = 1
         /\ \A e \in 1..Len(ret.combined) :
              ret.combined[e].sid = C5_Sid(i) =>
                /\ ret.combined[e].rec.name = C5_Order[C5_First(i)].r.name
                /\ ret.combined[e].rec.station_url = C5_Order[C5_First(i)].r.station_url
                /\ ret.combined[e].rec.address = C5_Order[C5_First(i)].r.address
                /\ \A grade \in GradeSet :
                     ret.combined[e].rec[grade] =
                        IF C5_Same(i, grade) = {} THEN NoPrice
                        ELSE C5_Order[C5_Last(C5_Same(i, grade))].r.price
    /\ \A e \in 1..Len(ret.combined) : \E i \in 1..ret.k : C5_Sid(i) = ret.combined[e].sid
    /\ hpc = "returned" =>
         /\ ret.k = Len(C5_Order)
         /\ Len(ret.result) = Len(ret.combined)
         /\ \A e \in 1..Len(ret.combined) : ret.result[e] = ret.combined[e].rec

\* C5 witness: the call has returned after a later observation met a station id
\* first seen with another name, URL and address, and after an observation
\* overwrote an earlier price of its own id and grade
C5_Witness ==
    /\ hpc = "returned"
    /\ \E i \in 1..ret.k : \E j \in 1..(i - 1) :
         /\ C5_Sid(j) = C5_Sid(i)
         /\ C5_Order[j].r.name # C5_Order[i].r.name
         /\ C5_Order[j].r.station_url # C5_Order[i].r.station_url
         /\ C5_Order[j].r.address # C5_Order[i].r.address
    /\ \E i \in 1..ret.k : \E j \in 1..(i - 1) :
         /\ C5_Sid(j) = C5_Sid(i)
         /\ C5_Order[j].grade = C5_Order[i].grade
         /\ C5_Order[j].r.price # C5_Order[i].r.price
---------------------------------------------------------------------------
(* Properties of dedupe_rows_by_station_and_address *)

C6_Name(r) == Strip(IF r.station_name = None THEN <<>> ELSE r.station_name)
C6_Address(r) == Strip(IF r.address = None THEN <<>> ELSE r.address)
C6_HasBoth(r) == C6_Name(r) # <<>> /\ C6_Address(r) # <<>>
C6_Pair(r) == <<Lower(C6_Name(r)), Lower(C6_Address(r))>>

\* row i has a name and an address and its pair occurred in an earlier such row
C6_Repeats(i) ==
    /\ C6_HasBoth(ret.input[i])
    /\ \E j \in 1..(i - 1) : C6_HasBoth(ret.input[j]) /\ C6_Pair(ret.input[j]) = C6_Pair(ret.input[i])

C6_Kept == {i \in 1..Len(ret.input) : ~C6_Repeats(i)}

\* the n-th smallest element of a set of indices
C6_Nth(S, n) == CHOOSE i \in S : Cardinality({j \in S : j < i}) = n - 1

\* a retained row: itself, its name and address trimmed when it has both
C6_Retained(r) ==
    IF C6_HasBoth(r)
    THEN [r EXCEPT !.station_name = C6_Name(r), !.address = C6_Address(r)]
    ELSE r

\* C6: the result is the input rows in their order minus exactly the rows that
\* have a non-empty trimmed name and address and whose case-insensitive pair
\* occurred in an earlier such row; no pair occurs twice in the result, the
\* first occurrence is the one kept, rows lacking a name or an address (error
\* rows included) are all retained.
C6_FirstOccurrenceWins ==
    hpc \in {"once", "twice"} =>
      /\ Len(ret.once) = Cardinality(C6_Kept)
      /\ \A n \in 1..Len(ret.once) : ret.once[n] = C6_Retained(ret.input[C6_Nth(C6_Kept, n)])
      /\ \A m, n \in 1..Len(ret.once) :
           (m # n /\ C6_HasBoth(ret.once[m]) /\ C6_HasBoth(ret.once[n]))
              => C6_Pair(ret.once[m]) # C6_Pair(ret.once[n])
      /\ Cardinality({n \in 1..Len(ret.once) : ~C6_HasBoth(ret.once[n])})
            = Cardinality({i \in 1..Len(ret.input) : ~C6_HasBoth(ret.input[i])})

\* C6 witness: a row was dropped whose pair differs in case and spacing from
\* the earlier row that was kept, and an error row and a row without address
\* were retained
C6_Witness ==
    /\ hpc = "once"
    /\ \E i \in 1..Len(ret.input) : \E j \in 1..(i - 1) :
         /\ C6_Repeats(i)
         /\ C6_HasBoth(ret.input[j])
         /\ C6_Pair(ret.input[j]) = C6_Pair(ret.input[i])
         /\ ret.input[j].station_name # ret.input[i].station_name
         /\ ret.input[j].address # ret.input[i].address
    /\ \E n \in 1..Len(ret.once) : ret.once[n].scrape_error # None
    /\ Len(ret.once) < Len(ret.input)

\* C7: dedupe applied to its own output returns the same rows, in the same
\* order, with the same field values: the second call returns the output as it
\* was before the call, and leaves it as it was.
C7_Idempotent ==
    [][(hpc = "once" /\ hpc' = "twice") =>
          (ret'.twice = ret.once /\ ret'.once = ret.once /\ arg' = arg)]_vars

\* C7 witness: the second pass has run on an output from which the first pass
\* dropped a row and in which it trimmed a name
C7_Witness ==
    /\ hpc = "twice"
    /\ Len(ret.once) < Len(ret.input)
    /\ Len(ret.once) >= 2
    /\ \E n \in 1..Len(ret.once) : \E i \in 1..Len(ret.input) :
         /\ ret.input[i].station_name # None
         /\ ret.once[n].station_name = Strip(ret.input[i].station_name)
         /\ ret.once[n].station_name # ret.input[i].station_name
         /\ ret.once[n].address # None

---------------------------------------------------------------------------
(* Properties of flatten_results_for_storage *)

\* how many rows a city yields
C8_Count(entry) == IF entry.result.kind = "error" THEN 1 ELSE Len(entry.result.stations)

RECURSIVE C8_Before(_)
C8_Before(c) == IF c <= 1 THEN 0 ELSE C8_Before(c - 1) + C8_Count(arg[c - 1])

C8_PricesNull(row) ==
    /\ row.regular = NoPrice /\ row.midgrade = NoPrice
    /\ row.premium = NoPrice /\ row.diesel = NoPrice
    /\ row.regular_updated = None /\ row.midgrade_updated = None
    /\ row.premium_updated = None /\ row.diesel_updated = None

C8_RowsOfCities ==
    /\ Len(ret) = C8_Before(Len(arg) + 1)
    /\ \A c \in 1..Len(arg) : \A n \in 1..C8_Count(arg[c]) :
         ret[C8_Before(c) + n].city = arg[c].city

\* C8 as claimed: an error city yields exactly one row in which station_id,
\* station_name, station_url, address and every price and updated field are null
\* and scrape_error is the message; a city with a record list yields one row per
\* record with scrape_error null.
C8_ErrorRowAllNull ==
    hpc = "returned" =>
      /\ C8_RowsOfCities
      /\ \A c \in 1..Len(arg) : \A n \in 1..C8_Count(arg[c]) :
           LET row == ret[C8_Before(c) + n]
           IN IF arg[c].result.kind = "error"
              THEN /\ row.station_id = None /\ row.station_name = None
                   /\ row.station_url = None /\ row.address = None
                   /\ C8_PricesNull(row)
                   /\ row.scrape_error = arg[c].result.error
              ELSE row.scrape_error = None

\* C8 amended: as claimed, except that station_name of the error row is the
\* text "ERROR"; the rows of a record list are those of its records, in order.
C8_ErrorRowMarked ==
    hpc = "returned" =>
      /\ C8_RowsOfCities
      /\ \A c \in 1..Len(arg) : \A n \in 1..C8_Count(arg[c]) :
           LET row == ret[C8_Before(c) + n]
           IN IF arg[c].result.kind = "error"
              THEN /\ row.station_id = None /\ row.station_name = ERROR
                   /\ row.station_url = None /\ row.address = None
                   /\ C8_PricesNull(row)
                   /\ row.scrape_error = arg[c].result.error
              ELSE /\ row.scrape_error = None
                   /\ row.station_name = arg[c].result.stations[n].name

\* C8 witness: flattened a mapping with an error city between two cities, or
\* next to one, that have records
C8_Witness ==
    /\ hpc = "returned"
    /\ \E c, d \in 1..Len(arg) :
         /\ arg[c].result.kind = "error" /\ arg[c].result.error # <<>>
         /\ arg[d].result.kind = "list" /\ Len(arg[d].result.stations) = 2
         /\ d < c
---------------------------------------------------------------------------
(* Properties of the city scrape and of the main loop *)

InCall == {"returned", "raised"}

\* C1: every city scrape in which a browser session was created has closed it
\* (driver.quit) when the call returns or raises, whichever step raised.
C1_SessionClosedOnExit == pc \in InCall => driver # "open"

\* the enabled cities the loop has finished with, lowest first
C2_Done == {c \in CityIds : c < city /\ cfg.city_toggles[c]}
C2_Nth(n) == CHOOSE c \in C2_Done : Cardinality({d \in C2_Done : d < c}) = n - 1

\* C2: an exception raised anywhere in a city's scrape is recorded as the error
\* marker {error: message} of that city, with none of the grades scraped before
\* it, and the loop goes on to the next city; the results mapping has exactly
\* one entry per enabled city the loop is through with (all of them when the
\* loop has ended), each a list of records or an error marker.
C2_ErrorRecorded ==
    /\ [](/\ Len(all_results) = Cardinality(C2_Done)
          /\ \A n \in 1..Len(all_results) :
               /\ all_results[n].city = CityNames[C2_Nth(n)]
               /\ all_results[n].result.kind \in {"list", "error"}
          /\ pc \in {"json", "flatten", "dedupe", "upload", "upsert", "csv", "done"}
               => city = NumCities + 1)
    /\ [][pc = "raised" =>
            /\ all_results' = Append(all_results,
                   [city |-> CityNames[city],
                    result |-> [kind |-> "error", error |-> pending.msg,
                                stations |-> <<>>]])
            /\ city' = city + 1
            /\ pc' = "loop"]_vars

\* C2 witness: the first city's grade switch timed out, its error marker is
\* stored, and the loop has gone on to scrape the second city, whose regular
\* grade is in and whose own grade switch has just timed out
C2_Witness ==
    /\ pc = "raised"
    /\ Len(all_results) = 1
    /\ all_results[1].result = [kind |-> "error", error |-> Msg("timeout"),
                                stations |-> <<>>]
    /\ data["regular"] # <<>>
    /\ pending.msg = Msg("timeout")

\* C3: when no station link appears in the wait after navigation, the city
\* scrape returns an empty list with no grade switch and no page scrape, and the
\* main loop stores an empty list for the city, not an error marker.
C3_NoStationsIsEmpty ==
    /\ []((events # <<>> /\ events[1].op = "no_stations") =>
            /\ Len(events) = 1
            /\ data = [g \in GradeSet |-> <<>>]
            /\ pc \in {"finally", "returned"}
            /\ pending.kind = "return" /\ pending.value = <<>>)
    /\ [][(pc = "returned" /\ events # <<>> /\ events[1].op = "no_stations") =>
            all_results' = Append(all_results,
                [city |-> CityNames[city],
                 result |-> [kind |-> "list", error |-> None, stations |-> <<>>]])]_vars

\* C3 witness: the scrape of a city with every grade enabled has returned from
\* the failed wait, the session closed
C3_Witness ==
    /\ pc = "returned"
    /\ events = <<[op |-> "no_stations", grade |-> ""]>>
    /\ driver = "quit"
    /\ \A g \in GradeSet : cfg.enable[g]

\* what a complete city scrape does to the page under the toggles
C9_Expected ==
    (IF cfg.enable["regular"] THEN <<[op |-> "scrape", grade |-> "regular"]>> ELSE <<>>)
    \o (IF cfg.enable["midgrade"]
        THEN <<[op |-> "switch", grade |-> "2"], [op |-> "scrape", grade |-> "midgrade"]>>
        ELSE <<>>)
    \o (IF cfg.enable["premium"]
        THEN <<[op |-> "switch", grade |-> "3"], [op |-> "scrape", grade |-> "premium"]>>
        ELSE <<>>)
    \o (IF cfg.enable["diesel"]
        THEN <<[op |-> "switch", grade |-> "4"], [op |-> "scrape", grade |-> "diesel"]>>
        ELSE <<>>)

\* C9: the grades are scraped in the order regular, midgrade, premium, diesel,
\* disabled ones skipped; regular with no switch before it, every other grade
\* right after the switch to its value returned; a failed switch is the last
\* thing the scrape does to the page and the call raises, returning no record;
\* a call that returns records has gone through every enabled grade.
C9_GradeOrder ==
    LET n == Len(events)
    IN (n > 0 /\ events[1].op # "no_stations") =>
         /\ n <= Len(C9_Expected)
         /\ \A i \in 1..(n - 1) : events[i] = C9_Expected[i]
         /\ \/ events[n] = C9_Expected[n]
            \/ /\ C9_Expected[n].op = "switch"
               /\ events[n] = [op |-> "switch_failed", grade |-> C9_Expected[n].grade]
         /\ events[n].op = "switch_failed" =>
               /\ pc \in {"finally", "raised"}
               /\ pending.kind = "raise" /\ pending.value = <<>>
         /\ pending.kind = "return" => events = C9_Expected
         /\ \A g \in GradeSet :
               data[g] # <<>> => \E i \in 1..n : events[i] = [op |-> "scrape", grade |-> g]

\* C9 witness: midgrade disabled; regular was scraped with data, then the
\* switch to premium ("3") failed and the call has raised
C9_Witness ==
    /\ pc = "raised"
    /\ ~cfg.enable["midgrade"]
    /\ cfg.enable["diesel"]
    /\ data["regular"] # <<>>
    /\ events = <<[op |-> "scrape", grade |-> "regular"],
                  [op |-> "switch_failed", grade |-> "3"]>>

---------------------------------------------------------------------------
(* Properties of the output steps *)

C4_UploadReports == {"upload_skipped", "upload_failed", "uploaded"}

\* C4: a failure of the upload step (missing dependency or credentials, or an
\* exception of a batch upsert) is caught and reported for that step only: the
\* run is never aborted, control reaches the CSV step with one report of the
\* upload, the CSV step is then carried out (the export written when enabled)
\* and the run ends; "uploaded" is reported only when every batch went through.
C4_UploadFailureContained ==
    /\ pc # "aborted"
    /\ pc = "csv" => Len(sinks.log) = 2 /\ sinks.log[2] \in C4_UploadReports
    /\ pc = "done" =>
         /\ Len(sinks.log) = 3
         /\ sinks.log[2] \in C4_UploadReports
         /\ sinks.log[3] = IF sinks.write_csv_output THEN "csv_saved" ELSE "csv_skipped"
         /\ ~sinks.write_csv_output => sinks.csv = <<>>
    /\ (pc \in {"csv", "done"} /\ sinks.log[2] = "uploaded") => sinks.i >= Len(rows)

\* C4 witness: the run has ended after a failed upload of a non-empty row set
\* and a CSV export written after it
C4_Witness ==
    /\ pc = "done"
    /\ rows # <<>>
    /\ sinks.log[2] = "upload_failed"
    /\ sinks.log[3] = "csv_saved"
    /\ sinks.csv # <<>>
---------------------------------------------------------------------------
(* Properties of write_csv beside flatten and dedupe *)

\* the city of that name has a record list, not an error marker
C11_ListCity(cityName) ==
    \E c \in 1..Len(arg) : arg[c].city = cityName /\ arg[c].result.kind = "list"

\* the station rows of the deduplicated flat rows, and the station lines of the CSV
C11_Rows == SelectSeq(ret.rows, LAMBDA row : C11_ListCity(row.city))
C11_Lines == SelectSeq(ret.csv, LAMBDA line : C11_ListCity(line.city))

C11_Text(x) == Strip(IF x = None THEN <<>> ELSE x)

\* how many stations the mapping holds
RECURSIVE C11_Stations(_)
C11_Stations(c) ==
    IF c = 0 THEN 0
    ELSE C11_Stations(c - 1)
         + (IF arg[c].result.kind = "list" THEN Len(arg[c].result.stations) ELSE 0)

\* C11: the station lines write_csv writes are, in the same order, the stations
\* whose rows survive flatten_results_for_storage followed by
\* dedupe_rows_by_station_and_address, with the same trimmed name and address
\* whenever both are non-empty; no station is kept by one path and dropped by
\* the other.
C11_DedupePassesAgree ==
    hpc = "written" =>
      /\ Len(C11_Lines) = Len(C11_Rows)
      /\ \A n \in 1..Len(C11_Rows) :
           LET row == C11_Rows[n]
               line == C11_Lines[n]
           IN /\ line.city = row.city
              /\ line.station = C11_Text(row.station_name)
              /\ line.address = C11_Text(row.address)
              /\ line.regular = row.regular /\ line.diesel = row.diesel
              /\ (C11_Text(row.station_name) # <<>> /\ C11_Text(row.address) # <<>>) =>
                    /\ line.station = row.station_name
                    /\ line.address = row.address
      /\ Len(ret.csv) - Len(C11_Lines) = Len(ret.rows) - Len(C11_Rows)

\* C11 witness: both paths have run on a mapping of two cities in which the
\* second city repeats, in other case and spacing, a station of the first, so
\* that both dropped it, and kept a station without address
C11_Witness ==
    /\ hpc = "written"
    /\ Len(arg) = 2
    /\ arg[1].result.kind = "list" /\ arg[2].result.kind = "list"
    /\ \E i \in 1..Len(arg[1].result.stations) : \E j \in 1..Len(arg[2].result.stations) :
         /\ arg[1].result.stations[i].name # arg[2].result.stations[j].name
         /\ arg[1].result.stations[i].address # arg[2].result.stations[j].address
         /\ C11_Text(arg[1].result.stations[i].address) # <<>>
         /\ Lower(C11_Text(arg[1].result.stations[i].name))
               = Lower(C11_Text(arg[2].result.stations[j].name))
         /\ Lower(C11_Text(arg[1].result.stations[i].address))
               = Lower(C11_Text(arg[2].result.stations[j].address))
    /\ Len(C11_Lines) < C11_Stations(Len(arg))
    /\ \E n \in 1..Len(C11_Lines) : C11_Lines[n].address = <<>>

=============================================================================
